---- MODULE Spec2Model ----
(***************************************************************************)
(* The task-list web application of src/app.py as a state machine: the     *)
(* Task table, the session cookie's "user" key, the UTC clock, and one     *)
(* action per route handler (index, add, complete, delete, edit, login,    *)
(* logout).                                                                *)
(*                                                                         *)
(* Encodings.  A value that may be missing (a form field, a query          *)
(* argument, the session's "user" key) is Absent or Given(v).  A nullable  *)
(* column (due_date) is <<>> for NULL and <<d>> for the timestamp d.  Text *)
(* whose characters matter (content, a submitted due_date) is a sequence   *)
(* of one-character strings; text that is only compared for equality      *)
(* (priority, username, password, the selectors) is a string.  A timestamp *)
(* is a number of clock ticks, TicksPerDay to the day; a submitted         *)
(* due_date is well formed when it is a day digit followed by a tick       *)
(* digit.                                                                  *)
(***************************************************************************)
EXTENDS Integers, Sequences, FiniteSets, TLC

VARIABLES tasks, session, now, req, resp

vars == <<tasks, session, now, req, resp>>

-----------------------------------------------------------------------------
(* Bounds of the model *)

\* the largest row id the store hands out
MaxId == 1
\* the largest number of rows of a table index is applied to
MaxRows == 2
\* the last tick the clock reaches
MaxNow == 1
\* the resolution of the clock
TicksPerDay == 2

(* Program constants *)

\* timedelta(days=7)
DaysPerWeek == 7
\* priority_order.get(t.priority, 3)
DefaultRank == 3

-----------------------------------------------------------------------------
(* Optional values *)

Absent == [given |-> FALSE]

Given(v) == [given |-> TRUE, val |-> v]

\* dict.get(key, default)
Get(field, default) == IF field.given THEN field.val ELSE default

NULL == <<>>

-----------------------------------------------------------------------------
(* Python's text operations *)

IsSpace(c) == c = " "

RECURSIVE lstrip(_)
lstrip(s) == IF s # <<>> /\ IsSpace(Head(s)) THEN lstrip(Tail(s)) ELSE s

RECURSIVE rstrip(_)
rstrip(s) ==
    IF s # <<>> /\ IsSpace(s[Len(s)]) THEN rstrip(SubSeq(s, 1, Len(s) - 1)) ELSE s

\* a plausible slip: only the leading whitespace is removed
strip_leading_only(s) == lstrip(s)

\* str.strip()
strip(s) == rstrip(lstrip(s))

Digits == <<"0", "1", "2", "3", "4", "5", "6", "7", "8", "9">>

IsDigit(c) == \E i \in 1..Len(Digits) : Digits[i] = c

DigitVal(c) == (CHOOSE i \in 1..Len(Digits) : Digits[i] = c) - 1

\* whether datetime.fromisoformat(s) returns (otherwise it raises ValueError)
IsIsoFormat(s) ==
    /\ Len(s) = 2
    /\ IsDigit(s[1])
    /\ IsDigit(s[2])
    /\ DigitVal(s[2]) < TicksPerDay

\* datetime.fromisoformat(s), for a well-formed s
fromisoformat(s) == DigitVal(s[1]) * TicksPerDay + DigitVal(s[2])

-----------------------------------------------------------------------------
(* Configuration *)

\* os.environ.get("TODO_USER", "admin")
expected_user == "admin"

\* os.environ.get("TODO_PASS", "password")
expected_pass == "password"

-----------------------------------------------------------------------------
(* The Task table *)

\* Task(content=..., priority=..., due_date=...): completed and created_date
\* take their column defaults
Task(content, priority, due_date, created) ==
    [content      |-> content,
     completed    |-> FALSE,
     priority     |-> priority,
     due_date     |-> due_date,
     created_date |-> created]

\* the INTEGER PRIMARY KEY of a new row: one more than the largest in the table
NextId(store) ==
    IF DOMAIN store = {} THEN 1
    ELSE (CHOOSE i \in DOMAIN store : \A j \in DOMAIN store : j <= i) + 1

\* db.session.add(new_task); db.session.commit()
Insert(store, t) ==
    [i \in DOMAIN store \cup {NextId(store)} |->
        IF i \in DOMAIN store THEN store[i] ELSE t]

\* db.session.delete(task); db.session.commit()
Remove(store, id) == [i \in DOMAIN store \ {id} |-> store[i]]

\* Task.is_overdue() at clock n
is_overdue(t, n) ==
    IF t.due_date = NULL \/ t.completed THEN FALSE ELSE t.due_date[1] < n

-----------------------------------------------------------------------------
(* Auth helper *)

\* a plausible slip: the guard lets every request through
login_required_open(sess) == TRUE

\* login_required: whether session.get("user") is truthy, so that the wrapped
\* handler runs
login_required(sess) == sess.given /\ sess.val # ""

\* a plausible slip: only the username is compared
credentials_user_only(username, password) ==
    username = Given(expected_user)

\* username == expected_user and password == expected_pass
credentials_ok(username, password) ==
    /\ username = Given(expected_user)
    /\ password = Given(expected_pass)

-----------------------------------------------------------------------------
(* add and edit: the values written to a row *)

\* whether `task_content and task_content.strip()` is truthy
content_ok(content) == content.given /\ content.val # <<>> /\ strip(content.val) # <<>>

\* add's due_date: the parsed input, or None when it is missing, empty or
\* malformed
add_due_date(due_date_str) ==
    IF due_date_str.given /\ due_date_str.val # <<>> /\ IsIsoFormat(due_date_str.val)
    THEN <<fromisoformat(due_date_str.val)>>
    ELSE NULL

\* the table after add's body
add_store(store, content, priority, due_date_str, n) ==
    IF content_ok(content)
    THEN Insert(store, Task(strip(content.val), Get(priority, "medium"),
                            add_due_date(due_date_str), n))
    ELSE store

\* a plausible slip: a malformed input clears the due date
edit_due_date_clears(old, due_date_str) ==
    IF due_date_str.given /\ due_date_str.val # <<>> /\ IsIsoFormat(due_date_str.val)
    THEN <<fromisoformat(due_date_str.val)>>
    ELSE IF due_date_str.given THEN NULL ELSE old

\* edit's due_date
edit_due_date(old, due_date_str) ==
    IF due_date_str.given /\ due_date_str.val # <<>>
    THEN IF IsIsoFormat(due_date_str.val)
         THEN <<fromisoformat(due_date_str.val)>>
         ELSE old
    ELSE IF due_date_str = Given(<<>>) THEN NULL ELSE old

\* the row after edit's body
edit_task(t, content, priority, due_date_str) ==
    [t EXCEPT
        !.content  = IF content_ok(content) THEN strip(content.val) ELSE @,
        !.priority = IF priority.given /\ priority.val # "" THEN priority.val ELSE @,
        !.due_date = edit_due_date(@, due_date_str)]

-----------------------------------------------------------------------------
(* index: the filters *)

\* a plausible slip: an unrecognized status matches nothing
status_match_strict(t, f) ==
    IF f = "pending" THEN t.completed = FALSE
    ELSE IF f = "completed" THEN t.completed = TRUE
    ELSE f = "all"

\* filter_by(completed=...) when status is pending or completed, no filter
\* otherwise
status_match(t, f) ==
    IF f = "pending" THEN t.completed = FALSE
    ELSE IF f = "completed" THEN t.completed = TRUE
    ELSE TRUE

\* filter_by(priority=priority_filter) unless the filter is "all"
priority_match(t, f) == f = "all" \/ t.priority = f

\* a plausible slip: NULL compares as the earliest timestamp
sql_lt_null_first(d, n) == d = NULL \/ d[1] < n

\* SQL's `column < n`: never true of a NULL column
sql_lt(d, n) == d # NULL /\ d[1] < n

\* SQL's `column >= n`
sql_ge(d, n) == d # NULL /\ d[1] >= n

\* SQL's `column <= n`
sql_le(d, n) == d # NULL /\ d[1] <= n

\* today.replace(hour=0, minute=0, second=0, microsecond=0)
StartOfDay(n) == n - (n % TicksPerDay)

\* a plausible slip: the overdue filter forgets the completed flag
due_match_ignores_completed(t, f, n) ==
    IF f = "all" THEN TRUE
    ELSE IF f = "overdue" THEN sql_lt(t.due_date, n)
    ELSE IF f = "today"
         THEN /\ sql_ge(t.due_date, StartOfDay(n))
              /\ sql_lt(t.due_date, StartOfDay(n) + TicksPerDay)
    ELSE IF f = "this_week"
         THEN /\ sql_ge(t.due_date, n)
              /\ sql_le(t.due_date, n + DaysPerWeek * TicksPerDay)
    ELSE TRUE

\* the due-date filter at clock n
due_match(t, f, n) ==
    IF f = "all" THEN TRUE
    ELSE IF f = "overdue" THEN sql_lt(t.due_date, n) /\ t.completed = FALSE
    ELSE IF f = "today"
         THEN /\ sql_ge(t.due_date, StartOfDay(n))
              /\ sql_lt(t.due_date, StartOfDay(n) + TicksPerDay)
    ELSE IF f = "this_week"
         THEN /\ sql_ge(t.due_date, n)
              /\ sql_le(t.due_date, n + DaysPerWeek * TicksPerDay)
    ELSE TRUE

\* the ids of a table in rowid order, the order of an unordered scan
RECURSIVE Scan(_, _)
Scan(store, from) ==
    IF \A i \in DOMAIN store : i < from THEN <<>>
    ELSE IF from \in DOMAIN store THEN <<from>> \o Scan(store, from + 1)
    ELSE Scan(store, from + 1)

\* the rows the filtered query selects, in rowid order
filtered(store, status, priority, due, n) ==
    LET keep(i) == /\ status_match(store[i], status)
                   /\ priority_match(store[i], priority)
                   /\ due_match(store[i], due, n)
    IN SelectSeq(Scan(store, 1), keep)

-----------------------------------------------------------------------------
(* index: the orderings *)

\* a stable sort of s by the relation before (a set of pairs): x goes ahead of y
\* when <<x, y>> is in before, and otherwise the two keep their order in s
StableSort(s, before) ==
    LET n == Len(s)
        Pos(i) == 1 + Cardinality({j \in 1..n :
                        /\ j # i
                        /\ \/ <<s[j], s[i]>> \in before
                           \/ <<s[i], s[j]>> \notin before /\ j < i})
    IN [k \in 1..n |-> s[CHOOSE i \in 1..n : Pos(i) = k]]

\* the pairs of ids of a table
Pairs(store) == (DOMAIN store) \X (DOMAIN store)

\* order_by(Task.created_date.asc())
created_date_asc(store, rows) ==
    StableSort(rows, {p \in Pairs(store) :
        store[p[1]].created_date < store[p[2]].created_date})

\* order_by(Task.created_date.desc())
created_date_desc(store, rows) ==
    StableSort(rows, {p \in Pairs(store) :
        store[p[1]].created_date > store[p[2]].created_date})

\* a plausible slip: nullslast() is left out, and SQLite puts NULLs first
due_date_asc_nulls_first(store, rows) ==
    StableSort(rows, {p \in Pairs(store) :
        /\ store[p[2]].due_date # NULL
        /\ \/ store[p[1]].due_date = NULL
           \/ store[p[1]].due_date[1] < store[p[2]].due_date[1]})

\* order_by(Task.due_date.asc().nullslast())
due_date_asc(store, rows) ==
    StableSort(rows, {p \in Pairs(store) :
        /\ store[p[1]].due_date # NULL
        /\ \/ store[p[2]].due_date = NULL
           \/ store[p[1]].due_date[1] < store[p[2]].due_date[1]})

\* priority_order.get(priority, 3)
rank(priority) ==
    IF priority = "high" THEN 0
    ELSE IF priority = "medium" THEN 1
    ELSE IF priority = "low" THEN 2
    ELSE DefaultRank

\* a plausible slip: the sort is not reversed
priority_sort_forward(store, rows) ==
    StableSort(rows, {p \in Pairs(store) :
        \/ rank(store[p[1]].priority) < rank(store[p[2]].priority)
        \/ /\ rank(store[p[1]].priority) = rank(store[p[2]].priority)
           /\ store[p[1]].created_date < store[p[2]].created_date})

\* tasks.sort(key=lambda t: (rank, t.created_date), reverse=True): descending
\* in the pair (rank, created_date), equal keys keeping their order
priority_sort(store, rows) ==
    StableSort(rows, {p \in Pairs(store) :
        \/ rank(store[p[1]].priority) > rank(store[p[2]].priority)
        \/ /\ rank(store[p[1]].priority) = rank(store[p[2]].priority)
           /\ store[p[1]].created_date > store[p[2]].created_date})

\* the task list index renders
index_tasks(store, status, priority, due, sort, n) ==
    LET rows == filtered(store, status, priority, due, n)
    IN IF sort = "created_date_asc" THEN created_date_asc(store, rows)
       ELSE IF sort = "created_date_desc" THEN created_date_desc(store, rows)
       ELSE IF sort = "due_date_asc" THEN due_date_asc(store, rows)
       ELSE IF sort = "priority" THEN priority_sort(store, rows)
       ELSE created_date_desc(store, rows)

-----------------------------------------------------------------------------
(* The requests the model submits *)

ContentInputs == {Absent, Given(<<" ">>), Given(<<" ", "a">>), Given(<<"b", " ">>)}

PriorityInputs == {Absent, Given(""), Given("high")}

DueInputs == {Absent, Given(<<>>), Given(<<"0", "x">>), Given(<<"0", "0">>)}

Forms == [content : ContentInputs, priority : PriorityInputs, due_date : DueInputs]

\* the forms posted to /add: the priority is left out or chosen, and a form
\* without usable content carries nothing else
AddForms ==
    {f \in Forms :
        /\ f.priority # Given("")
        /\ ~content_ok(f.content) => f.priority = Absent /\ f.due_date = Absent}

\* the forms posted to /edit/<id>: at most one field submitted, or all three
\* submitted with usable values, or all three with unusable ones
EditForms ==
    {f \in Forms : Cardinality({k \in {"content", "priority", "due_date"} : f[k].given}) <= 1}
        \cup {[content |-> Given(<<" ", "a">>), priority |-> Given("high"),
               due_date |-> Given(<<"0", "0">>)],
              [content |-> Given(<<" ">>), priority |-> Given(""),
               due_date |-> Given(<<"0", "x">>)]}

Ids == 1..MaxId

Usernames == {Given("admin"), Given("eve")}

Passwords == {Absent, Given("password"), Given("guess")}

NextArgs == {Absent, Given("/add")}

\* the requests to /login: a GET carries no form
LoginRequests ==
    [method : {"POST"}, username : Usernames, password : Passwords, next : NextArgs]
        \cup [method : {"GET"}, username : {Absent}, password : {Absent}, next : NextArgs]

StatusArgs == {Absent, Given("pending"), Given("completed"), Given("done")}

PriorityArgs == {Absent, Given("high"), Given("urgent")}

DueArgs ==
    {Absent, Given("overdue"), Given("today"), Given("this_week"), Given("tomorrow")}

\* a missing sort resolves to created_date_desc
SortArgs ==
    {Absent, Given("created_date_asc"), Given("due_date_asc"), Given("priority"),
     Given("content")}

-----------------------------------------------------------------------------
(* Responses *)

Redirect(to) == [kind |-> "redirect", loc |-> to]

\* redirect(url_for("login", next=request.path))
RedirectLogin(path) == [kind |-> "redirect", loc |-> "login", next |-> path]

\* get_or_404 on a missing row
NotFound == [kind |-> "abort", code |-> "404"]

\* render_template("login.html"), with the message flashed before it
RenderLogin(flashed) == [kind |-> "render", template |-> "login.html", flash |-> flashed]

-----------------------------------------------------------------------------
(* The state machine *)

Init ==
    /\ tasks = <<>>
    /\ session = Absent
    /\ now = 0
    /\ req = [route |-> "none"]
    /\ resp = [kind |-> "none"]

\* GET /
Index(status, priority, due, sort) ==
    LET status_filter   == Get(status, "all")
        priority_filter == Get(priority, "all")
        due_date_filter == Get(due, "all")
        sort_by         == Get(sort, "created_date_desc")
    IN /\ req' = [route |-> "index"]
       /\ resp' = [kind            |-> "render",
                   template        |-> "index.html",
                   tasks           |-> index_tasks(tasks, status_filter, priority_filter,
                                                   due_date_filter, sort_by, now),
                   status_filter   |-> status_filter,
                   priority_filter |-> priority_filter,
                   due_date_filter |-> due_date_filter,
                   sort_by         |-> sort_by]
       /\ UNCHANGED <<tasks, session, now>>

\* POST /add
Add(form) ==
    /\ req' = [route |-> "add", form |-> form]
    /\ IF login_required(session)
       THEN /\ tasks' = add_store(tasks, form.content, form.priority, form.due_date, now)
            /\ resp' = Redirect("index")
       ELSE /\ tasks' = tasks
            /\ resp' = RedirectLogin("/add")
    /\ \A i \in DOMAIN tasks' : i <= MaxId
    /\ UNCHANGED <<session, now>>

\* GET /complete/<id>
Complete(id) ==
    /\ req' = [route |-> "complete", id |-> id]
    /\ IF ~login_required(session)
       THEN tasks' = tasks /\ resp' = RedirectLogin("/complete")
       ELSE IF id \notin DOMAIN tasks
       THEN tasks' = tasks /\ resp' = NotFound
       ELSE /\ tasks' = [tasks EXCEPT ![id].completed = ~@]
            /\ resp' = Redirect("index")
    /\ UNCHANGED <<session, now>>

\* GET /delete/<id>
Delete(id) ==
    /\ req' = [route |-> "delete", id |-> id]
    /\ IF ~login_required(session)
       THEN tasks' = tasks /\ resp' = RedirectLogin("/delete")
       ELSE IF id \notin DOMAIN tasks
       THEN tasks' = tasks /\ resp' = NotFound
       ELSE /\ tasks' = Remove(tasks, id)
            /\ resp' = Redirect("index")
    /\ UNCHANGED <<session, now>>

\* POST /edit/<id>
Edit(id, form) ==
    /\ req' = [route |-> "edit", id |-> id, form |-> form]
    /\ IF ~login_required(session)
       THEN tasks' = tasks /\ resp' = RedirectLogin("/edit")
       ELSE IF id \notin DOMAIN tasks
       THEN tasks' = tasks /\ resp' = NotFound
       ELSE /\ tasks' = [tasks EXCEPT
                            ![id] = edit_task(@, form.content, form.priority, form.due_date)]
            /\ resp' = Redirect("index")
    /\ UNCHANGED <<session, now>>

\* GET or POST /login
Login(r) ==
    /\ req' = [route |-> "login", method |-> r.method, username |-> r.username,
               password |-> r.password, next |-> r.next]
    /\ IF r.method = "POST" /\ credentials_ok(r.username, r.password)
       THEN /\ session' = Given(r.username.val)
            /\ resp' = Redirect(IF r.next.given /\ r.next.val # "" THEN r.next.val
                                ELSE "index")
       ELSE /\ session' = session
            /\ resp' = RenderLogin(IF r.method = "POST" THEN "Invalid credentials" ELSE "")
    /\ UNCHANGED <<tasks, now>>

\* GET /logout
Logout ==
    /\ req' = [route |-> "logout"]
    /\ session' = Absent
    /\ resp' = Redirect("index")
    /\ UNCHANGED <<tasks, now>>

\* datetime.utcnow() moves on between requests
Tick ==
    /\ now < MaxNow
    /\ now' = now + 1
    /\ UNCHANGED <<tasks, session, req, resp>>

IndexRequest ==
    \E status \in StatusArgs, priority \in PriorityArgs, due \in DueArgs, sort \in SortArgs :
        Index(status, priority, due, sort)

AddRequest == \E form \in AddForms : Add(form)

CompleteRequest == \E id \in Ids : Complete(id)

DeleteRequest == \E id \in Ids : Delete(id)

EditRequest == \E id \in Ids, form \in EditForms : Edit(id, form)

LoginRequest == \E r \in LoginRequests : Login(r)

Next ==
    \/ IndexRequest
    \/ AddRequest
    \/ CompleteRequest
    \/ DeleteRequest
    \/ EditRequest
    \/ LoginRequest
    \/ Logout
    \/ Tick

\* the application: every route and the clock
Spec == Init /\ [][Next]_vars

\* the routes that write the table or the session, and the clock; index reads
\* the table and writes neither
NextApp ==
    \/ AddRequest
    \/ CompleteRequest
    \/ DeleteRequest
    \/ EditRequest
    \/ LoginRequest
    \/ Logout
    \/ Tick

SpecApp == Init /\ [][NextApp]_vars

-----------------------------------------------------------------------------
(* index as a function of the table, the clock and the query arguments:    *)
(* the table and the instant are drawn from the states the mutating routes *)
(* can leave, and one GET / is applied to them                             *)

IndexPriorities == {"high", "urgent"}

IndexDueDates ==
    {add_due_date(d) : d \in {Absent, Given(<<"0", "0">>), Given(<<"7", "1">>)}}

\* the instants at which rows are created and the table is read
IndexClock == {0, 1}

IndexRows ==
    [content      : {<<"a">>},
     completed    : BOOLEAN,
     priority     : IndexPriorities,
     due_date     : IndexDueDates,
     created_date : IndexClock]

\* the tables add, edit, complete and delete can leave at clock n: rows are
\* created no later than n, and a larger id is never created earlier
IndexStores(n) ==
    UNION {{store \in [S -> IndexRows] :
                /\ \A i \in S : store[i].created_date <= n
                /\ \A i, j \in S : i < j => store[i].created_date <= store[j].created_date}
           : S \in SUBSET (1..MaxRows)}

InitIndex ==
    /\ now \in IndexClock
    /\ tasks \in IndexStores(now)
    /\ session = Absent
    /\ req = [route |-> "none"]
    /\ resp = [kind |-> "none"]

\* one GET / on the drawn table
NextIndex == req.route = "none" /\ IndexRequest

SpecIndex == InitIndex /\ [][NextIndex]_vars

-----------------------------------------------------------------------------
(* Vocabulary of the properties *)

MutatingRoutes == {"add", "complete", "delete", "edit"}

\* the step handles a request (it is not the clock's) on route r
Handles(r) == now' = now /\ req'.route = r

\* the last response redirects to the login page
ToLogin(r) == r.kind = "redirect" /\ r.loc = "login"

\* a field that is missing or consists of whitespace only
Blank(field) == ~field.given \/ \A k \in 1..Len(field.val) : field.val[k] = " "

\* a submitted due_date that is non-empty and is no timestamp
Malformed(field) == field.given /\ field.val # <<>> /\ ~IsIsoFormat(field.val)

\* the last request was GET /, and resp is its page
IsIndex == req.route = "index"

\* the row at position k of the rendered list
Row(k) == tasks[resp.tasks[k]]

Positions == 1..Len(resp.tasks)

\* the ids of the rendered list
Returned == {resp.tasks[k] : k \in Positions}

RecognizedStatus == {"all", "pending", "completed"}

RecognizedPriority == {"all", "low", "medium", "high"}

RecognizedDue == {"all", "overdue", "today", "this_week"}

-----------------------------------------------------------------------------
(* Properties of the mutating routes and of login, under SpecApp *)

\* C1: a request to add, complete, delete or edit made while the session holds
\* no user leaves the table as it was and is answered with a redirect to login.
C1_MutationsGatedByLogin ==
    [][(session = Absent /\ \E r \in MutatingRoutes : Handles(r))
            => (tasks' = tasks /\ ToLogin(resp'))]_vars

\* a gated request was refused while the table held a task
C1_Witness ==
    /\ req.route \in MutatingRoutes
    /\ session = Absent
    /\ ToLogin(resp)
    /\ tasks # <<>>

ContentTrimmed ==
    \A i \in DOMAIN tasks :
        LET c == tasks[i].content
        IN c # <<>> /\ c[1] # " " /\ c[Len(c)] # " "

\* C4: every stored content is non-empty and has no leading or trailing
\* whitespace; an add whose content is missing or whitespace-only creates no task,
\* and an edit whose content is missing or whitespace-only keeps the content.
C4_ContentNonEmptyTrimmed ==
    /\ []ContentTrimmed
    /\ [][/\ (Handles("add") /\ Blank(req'.form.content)) => tasks' = tasks
          /\ (Handles("edit") /\ Blank(req'.form.content) /\ req'.id \in DOMAIN tasks)
                => /\ req'.id \in DOMAIN tasks'
                   /\ tasks'[req'.id].content = tasks[req'.id].content]_vars

\* an edit with whitespace-only content ran on a stored task
C4_Witness ==
    /\ req.route = "edit"
    /\ req.form.content = Given(<<" ">>)
    /\ resp = Redirect("index")
    /\ req.id \in DOMAIN tasks

\* C8: an edit by a logged-in user does not fault; a due_date input that is
\* non-empty and malformed, or not submitted, leaves the due date as it was, and
\* a due date is cleared only by submitting the empty string.
C8_EditMalformedDueDateKept ==
    [][(Handles("edit") /\ session # Absent /\ req'.id \in DOMAIN tasks)
            => LET d   == req'.form.due_date
                   old == tasks[req'.id].due_date
                   new == tasks'[req'.id].due_date
               IN /\ resp' = Redirect("index")
                  /\ Malformed(d) => new = old
                  /\ ~d.given => new = old
                  /\ (old # NULL /\ new = NULL) => d = Given(<<>>)]_vars

\* an edit with a malformed due_date ran on a task that has a due date
C8_Witness ==
    /\ req.route = "edit"
    /\ Malformed(req.form.due_date)
    /\ resp = Redirect("index")
    /\ req.id \in DOMAIN tasks
    /\ tasks[req.id].due_date # NULL

\* C10: the session comes to hold a user only by a login POST whose username and
\* password both equal the expected ones; any other login request leaves the
\* session as it was; logout empties it; and while it holds no user the table
\* does not change.
C10_SessionFollowsLogin ==
    [][/\ (session' # session /\ session' # Absent)
            => /\ Handles("login")
               /\ req'.method = "POST"
               /\ req'.username = Given(expected_user)
               /\ req'.password = Given(expected_pass)
       /\ (Handles("login") /\ ~(/\ req'.method = "POST"
                                 /\ req'.username = Given(expected_user)
                                 /\ req'.password = Given(expected_pass)))
            => session' = session
       /\ Handles("logout") => session' = Absent
       /\ session = Absent => tasks' = tasks]_vars

\* after a login and a logout, a login POST with the right username and a wrong
\* password was refused
C10_Witness ==
    /\ req.route = "login"
    /\ req.method = "POST"
    /\ req.username = Given(expected_user)
    /\ req.password = Given("guess")
    /\ session = Absent
    /\ tasks # <<>>

-----------------------------------------------------------------------------
(* Properties of index, under SpecIndex *)

\* C2: with sort=priority a task of strictly lower rank is listed before a task
\* of higher rank.
C2_PriorityLowerRankFirst ==
    (IsIndex /\ resp.sort_by = "priority")
        => \A i, j \in Positions :
                rank(Row(i).priority) < rank(Row(j).priority) => i < j

\* C3, as claimed: a status, priority or due filter outside its recognized
\* values yields the empty list.
C3_UnrecognizedFilterMatchesNothing ==
    (/\ IsIndex
     /\ \/ resp.status_filter \notin RecognizedStatus
        \/ resp.priority_filter \notin RecognizedPriority
        \/ resp.due_date_filter \notin RecognizedDue)
        => resp.tasks = <<>>

\* C3, amended: index always renders; a status or due filter outside its
\* recognized values constrains nothing (the list is the one the value "all"
\* gives), and a priority filter outside its recognized values lists exactly the
\* tasks that pass the other filters and whose stored priority equals it.
C3_UnrecognizedFilterDegrades ==
    IsIndex =>
        LET status == IF resp.status_filter \in RecognizedStatus
                      THEN resp.status_filter ELSE "all"
            due    == IF resp.due_date_filter \in RecognizedDue
                      THEN resp.due_date_filter ELSE "all"
        IN /\ resp.kind = "render"
           /\ (\/ resp.status_filter \notin RecognizedStatus
               \/ resp.due_date_filter \notin RecognizedDue)
                => resp.tasks = index_tasks(tasks, status, resp.priority_filter, due,
                                            resp.sort_by, now)
           /\ resp.priority_filter \notin RecognizedPriority
                => LET others == index_tasks(tasks, status, "all", due, resp.sort_by, now)
                   IN Returned =
                        {others[k] : k \in {m \in 1..Len(others) :
                            tasks[others[m]].priority = resp.priority_filter}}

\* an unrecognized status, and an unrecognized priority that a task carries,
\* each listed a task
C3_Witness ==
    /\ IsIndex
    /\ resp.tasks # <<>>
    /\ \/ resp.status_filter \notin RecognizedStatus
       \/ resp.due_date_filter \notin RecognizedDue
    /\ resp.priority_filter \notin RecognizedPriority

\* C5: with due=overdue and the other filters at their defaults, the list holds
\* exactly the tasks that have a due date, whose due date is before now, and
\* that are not completed.
C5_OverdueExactly ==
    (/\ IsIndex
     /\ resp.due_date_filter = "overdue"
     /\ resp.status_filter = "all"
     /\ resp.priority_filter = "all")
        => Returned = {i \in DOMAIN tasks :
                          /\ tasks[i].due_date # NULL
                          /\ tasks[i].due_date[1] < now
                          /\ ~tasks[i].completed}

\* the overdue list holds a task and leaves out a completed one whose due date
\* has passed
C5_Witness ==
    /\ IsIndex
    /\ resp.due_date_filter = "overdue"
    /\ resp.status_filter = "all"
    /\ resp.priority_filter = "all"
    /\ resp.tasks # <<>>
    /\ \E i \in DOMAIN tasks :
          /\ tasks[i].completed
          /\ tasks[i].due_date # NULL
          /\ tasks[i].due_date[1] < now
          /\ i \notin Returned

\* C6: a task without a due date is never listed under due=overdue, today or
\* this_week, and is always listed under due=all with the status and priority
\* filters at their defaults.
C6_NoDueDateNeverInDueFilters ==
    IsIndex =>
        /\ resp.due_date_filter \in {"overdue", "today", "this_week"}
              => \A k \in Positions : Row(k).due_date # NULL
        /\ (/\ resp.due_date_filter = "all"
            /\ resp.status_filter = "all"
            /\ resp.priority_filter = "all")
              => \A i \in DOMAIN tasks : tasks[i].due_date = NULL => i \in Returned

\* a due filter listed a task while the table held a pending task without a due
\* date
C6_Witness ==
    /\ IsIndex
    /\ resp.due_date_filter \in {"overdue", "today", "this_week"}
    /\ resp.tasks # <<>>
    /\ \E i \in DOMAIN tasks : tasks[i].due_date = NULL /\ ~tasks[i].completed

\* C7: with sort=due_date_asc every listed task without a due date comes after
\* every listed task with one, and the tasks with a due date are in
\* non-decreasing order of it.
C7_DueAscNullsLast ==
    (IsIndex /\ resp.sort_by = "due_date_asc")
        => \A i, j \in Positions :
              i < j =>
                 /\ Row(i).due_date = NULL => Row(j).due_date = NULL
                 /\ (Row(i).due_date # NULL /\ Row(j).due_date # NULL)
                       => Row(i).due_date[1] <= Row(j).due_date[1]

\* the task without a due date has the smaller id and is listed last
C7_Witness ==
    /\ IsIndex
    /\ resp.sort_by = "due_date_asc"
    /\ Len(resp.tasks) = 2
    /\ Row(1).due_date # NULL
    /\ Row(2).due_date = NULL
    /\ resp.tasks[2] < resp.tasks[1]

\* C9: with sort=priority, of two listed tasks of equal rank the one created
\* later comes first.
C9_PriorityTiesCreatedDesc ==
    (IsIndex /\ resp.sort_by = "priority")
        => \A i, j \in Positions :
              (i < j /\ rank(Row(i).priority) = rank(Row(j).priority))
                  => Row(i).created_date >= Row(j).created_date

\* two tasks of equal rank, the later one created listed first
C9_Witness ==
    /\ IsIndex
    /\ resp.sort_by = "priority"
    /\ Len(resp.tasks) = 2
    /\ rank(Row(1).priority) = rank(Row(2).priority)
    /\ Row(1).created_date > Row(2).created_date

====
